---- MODULE Spec2Model ----
(***************************************************************************)
(* Event ingest service: the Event model (pkg/model/event.go) and the      *)
(* HTTP handlers POST /events and GET /health (internal/handler).          *)
(*                                                                         *)
(* Strings that the code inspects byte by byte (id, type, source) are      *)
(* sequences of one-character strings; messages are TLA+ strings.  A       *)
(* request body is described by its first JSON value, the number of bytes  *)
(* up to the end of that value, the whitespace that follows it, and the    *)
(* first non-space content after that.                                     *)
(***************************************************************************)
EXTENDS Integers, Sequences, FiniteSets, TLC

VARIABLES post, health, log, accepted, vEvt, vResults

vars == <<post, health, log, accepted, vEvt, vResults>>

(***************************************************************************)
(* Bounds of the model                                                     *)
(***************************************************************************)
MaxClock == 2      \* time.Now() returns one of 1..MaxClock
MaxLog == 2        \* at most MaxLog accepted events are logged
MaxCalls == 2      \* Validate is called at most MaxCalls times on an event

(***************************************************************************)
(* Program constants                                                       *)
(***************************************************************************)
MaxBytes == 1048576          \* 1<<20, http.MaxBytesReader(w, r.Body, 1<<20)
StatusOK == 200              \* http.StatusOK
StatusAccepted == 202        \* http.StatusAccepted
StatusBadRequest == 400      \* http.StatusBadRequest

nil == "<nil>"

(***************************************************************************)
(* strings.TrimSpace                                                       *)
(***************************************************************************)
IsSpace(c) == c \in {" ", "\t", "\n", "\r"}

RECURSIVE TrimLeft(_)
TrimLeft(s) ==
    IF s # <<>> /\ IsSpace(Head(s)) THEN TrimLeft(Tail(s)) ELSE s

RECURSIVE TrimRight(_)
TrimRight(s) ==
    IF s # <<>> /\ IsSpace(s[Len(s)]) THEN TrimRight(SubSeq(s, 1, Len(s) - 1)) ELSE s

TrimSpace(s) == TrimRight(TrimLeft(s))

(***************************************************************************)
(* time.Time: an instant t (0 is the zero time) and a location             *)
(***************************************************************************)
ZeroTime == [t |-> 0, loc |-> "UTC"]

IsZero(ts) == ts.t = 0

UTC(ts) == [ts EXCEPT !.loc = "UTC"]

Now(t) == [t |-> t, loc |-> "Local"]

Digits == <<"0", "1", "2", "3", "4", "5", "6", "7", "8", "9">>

\* Timestamp.Format(time.RFC3339): the instant, then Z or a numeric offset
FormatRFC3339(ts) ==
    <<"@", Digits[ts.t + 1], IF ts.loc = "UTC" THEN "Z" ELSE "+">>

IsRFC3339(s) ==
    /\ Len(s) = 3
    /\ s[1] = "@"
    /\ \E d \in 1..Len(Digits) : Digits[d] = s[2]
    /\ s[3] \in {"Z", "+"}

\* time.Time.UnmarshalJSON on the text of a JSON string
ParseRFC3339(s) ==
    [t |-> (CHOOSE d \in 1..Len(Digits) : Digits[d] = s[2]) - 1,
     loc |-> IF s[3] = "Z" THEN "UTC" ELSE "Fixed"]

(***************************************************************************)
(* model.Event and Event.Validate                                          *)
(***************************************************************************)
ZeroEvent ==
    [ID |-> <<>>, Type |-> <<>>, Source |-> <<>>, Timestamp |-> ZeroTime,
     Payload |-> "nil"]

ValidateTypeFirst(e) ==
    IF TrimSpace(e.Type) = <<>> THEN "Type is required."
    ELSE IF TrimSpace(e.ID) = <<>> THEN "ID is required."
    ELSE IF TrimSpace(e.Source) = <<>> THEN "Source is required."
    ELSE nil

ValidateNothing(e) == nil

ValidateInverted(e) ==
    IF TrimSpace(e.ID) # <<>> THEN "ID is required."
    ELSE IF TrimSpace(e.Type) # <<>> THEN "Type is required."
    ELSE IF TrimSpace(e.Source) # <<>> THEN "Source is required."
    ELSE nil

Validate(e) ==
    IF TrimSpace(e.ID) = <<>> THEN "ID is required."
    ELSE IF TrimSpace(e.Type) = <<>> THEN "Type is required."
    ELSE IF TrimSpace(e.Source) = <<>> THEN "Source is required."
    ELSE nil

(***************************************************************************)
(* The json struct tags of Event, and the fields encoding/json decodes     *)
(***************************************************************************)
EventTags ==
    << [name |-> "ID",        tag |-> "id", typ |-> "string"],
       [name |-> "Type",      tag |-> "id", typ |-> "string"],
       [name |-> "Source",    tag |-> "id", typ |-> "string"],
       [name |-> "Timestamp", tag |-> "id", typ |-> "time"],
       [name |-> "Payload",   tag |-> "id", typ |-> "any"] >>

\* Fields of one struct level that carry the same JSON name cancel each
\* other: none of them is decoded (encoding/json dominantField).
TypeFields ==
    { i \in 1..Len(EventTags) :
        \A j \in 1..Len(EventTags) : EventTags[j].tag = EventTags[i].tag => j = i }

HasField(key) == \E i \in TypeFields : EventTags[i].tag = key

FieldFor(key) == EventTags[CHOOSE i \in TypeFields : EventTags[i].tag = key]

(***************************************************************************)
(* Request bodies.  kind is the first JSON value ("object", "null",        *)
(* "scalar", "malformed", or "empty" when the body holds no value);        *)
(* members are the object's key/value pairs in the order sent; vlen is the *)
(* number of bytes up to the end of the first value (or up to the byte the *)
(* scanner rejects); ws is the number of whitespace bytes after it; tail   *)
(* is the first non-space content after that.                              *)
(***************************************************************************)
TailLen(tail) == IF tail = "none" THEN 0 ELSE IF tail = "object" THEN 2 ELSE 1

Total(b) == b.vlen + b.ws + TailLen(b.tail)

\* http.MaxBytesReader(w, r.Body, 1<<20): byte number pos of the body is
\* delivered iff it lies within the limit; reading past it is an error.
MaxBytesReaderUnlimited(pos) == TRUE

MaxBytesReader(pos) == pos <= MaxBytes

ErrTooLarge == "http: request body too large"

\* json.Decoder.readValue: scan the bytes of the first value
ReadValue(b) ==
    IF b.kind = "empty"
    THEN IF MaxBytesReader(Total(b)) THEN "EOF" ELSE ErrTooLarge
    ELSE IF ~MaxBytesReader(b.vlen) THEN ErrTooLarge
    ELSE IF b.kind = "malformed" THEN "invalid character"
    ELSE IF b.kind = "object" THEN nil
    \* a literal or number ends at the next byte or at EOF
    ELSE IF Total(b) = b.vlen \/ MaxBytesReader(b.vlen + 1) THEN nil
    ELSE ErrTooLarge

\* dec.DisallowUnknownFields()
AllowUnknownFields == FALSE

DisallowUnknownFields == TRUE

UnknownField(key) == "json: unknown field \"" \o key \o "\""

\* decodeState.object: the members in order; the first saved error is
\* returned at the end, an Unmarshaler's error at once.
RECURSIVE DecodeMembers(_, _, _)
DecodeMembers(ms, evt, saved) ==
    IF ms = <<>> THEN [err |-> saved, evt |-> evt]
    ELSE
      LET m == Head(ms) IN
      IF ~HasField(m.key)
      THEN DecodeMembers(Tail(ms), evt,
              IF DisallowUnknownFields /\ saved = nil
              THEN UnknownField(m.key) ELSE saved)
      ELSE
        LET f == FieldFor(m.key) IN
        IF m.val.t = "null" THEN DecodeMembers(Tail(ms), evt, saved)
        ELSE IF f.typ = "string"
        THEN IF m.val.t = "string"
             THEN DecodeMembers(Tail(ms), [evt EXCEPT ![f.name] = m.val.s], saved)
             ELSE DecodeMembers(Tail(ms), evt,
                     IF saved = nil
                     THEN "json: cannot unmarshal into Go struct field" ELSE saved)
        ELSE IF f.typ = "time"
        THEN IF m.val.t = "string" /\ IsRFC3339(m.val.s)
             THEN DecodeMembers(Tail(ms),
                     [evt EXCEPT ![f.name] = ParseRFC3339(m.val.s)], saved)
             ELSE [err |-> "parsing time", evt |-> evt]
        ELSE DecodeMembers(Tail(ms), [evt EXCEPT ![f.name] = "set"], saved)

\* dec.Decode(&evt)
Decode(b, evt) ==
    LET rerr == ReadValue(b) IN
    IF rerr # nil THEN [err |-> rerr, evt |-> evt]
    ELSE IF b.kind = "object" THEN DecodeMembers(b.members, evt, nil)
    ELSE IF b.kind = "null" THEN [err |-> nil, evt |-> evt]
    ELSE [err |-> "json: cannot unmarshal number into Go value of type model.Event",
          evt |-> evt]

\* dec.More(): peek at the next non-space byte; a read error, a ']' or a
\* '}' is "no more".
More(b) ==
    /\ b.tail # "none"
    /\ MaxBytesReader(b.vlen + b.ws + 1)
    /\ b.tail \notin {"]", "}"}

(***************************************************************************)
(* Responses and the log                                                   *)
(***************************************************************************)
\* httpError(w, status, message, err)
httpError(status, message, err) ==
    [status |-> status, ctype |-> "application/json",
     body |-> [error |-> message, details |-> err]]

\* w.WriteHeader(http.StatusAccepted) and the encoded {"status","id"} map
AcceptedResponse(evt) ==
    [status |-> StatusAccepted, ctype |-> "application/json",
     body |-> [status |-> "accepted", id |-> evt.ID]]

\* h.Logger.Printf("event accepted: id=%s type=%s source=%s ts=%s", ...)
LogLine(evt) ==
    [msg |-> "event accepted", id |-> evt.ID, type |-> evt.Type,
     source |-> evt.Source, ts |-> FormatRFC3339(evt.Timestamp)]

(***************************************************************************)
(* The requests a client can send                                          *)
(***************************************************************************)
Str(s) == [t |-> "string", s |-> s]

Opt(key, vals) == {<<>>} \cup { <<[key |-> key, val |-> v]>> : v \in vals }

Objects ==
    { a \o b \o c \o d \o e \o f :
        a \in Opt("id", {Str(<<>>), Str(<<" ">>), Str(<<"e", "1">>)}),
        b \in Opt("type", {Str(<<" ", "\t">>), Str(<<"c">>)}),
        c \in Opt("source", {Str(<<>>), Str(<<"w">>)}),
        d \in Opt("timestamp", {Str(<<"@", "0", "Z">>), Str(<<"@", "1", "+">>)}),
        e \in Opt("payload", {[t |-> "other", s |-> <<>>]}),
        f \in Opt("bogus", {[t |-> "other", s |-> <<>>]}) }

Values ==
    { [kind |-> "object", members |-> ms] : ms \in Objects }
    \cup { [kind |-> k, members |-> <<>>] : k \in {"null", "scalar", "malformed"} }

Tails == {"none", "object", "scalar", "]", "}"}

Bodies ==
    { [kind |-> v.kind, members |-> v.members, vlen |-> n, ws |-> w, tail |-> t] :
        v \in Values, n \in {64, MaxBytes, MaxBytes + 1},
        w \in {0, MaxBytes}, t \in Tails }
    \cup { [kind |-> "empty", members |-> <<>>, vlen |-> n, ws |-> 0, tail |-> "none"] :
             n \in {0, MaxBytes + 1} }

IdlePost ==
    [pc |-> "idle", body |-> [kind |-> "empty", members |-> <<>>, vlen |-> 0,
                              ws |-> 0, tail |-> "none"],
     evt |-> ZeroEvent, resp |-> <<>>, stage |-> "none", logged |-> 0]

IdleHealth == [pc |-> "idle", status |-> 0, body |-> ""]

(***************************************************************************)
(* POST /events: EventHandler.handlePostEvent                              *)
(***************************************************************************)
\* the server hands a new request to the handler
PostRequest ==
    /\ post.pc = "idle"
    /\ \E b \in Bodies :
         post' = [pc |-> "decode", body |-> b, evt |-> ZeroEvent,
                  resp |-> <<>>, stage |-> "none", logged |-> 0]
    /\ UNCHANGED <<health, log, accepted, vEvt, vResults>>

\* MaxBytesReader, NewDecoder, DisallowUnknownFields, Decode
PostDecode ==
    /\ post.pc = "decode"
    /\ LET r == Decode(post.body, post.evt) IN
         IF r.err # nil
         THEN post' = [post EXCEPT
                  !.pc = "done", !.evt = r.evt, !.stage = "decode",
                  !.resp = Append(@, httpError(StatusBadRequest,
                                               "invalid JSON payload", r.err))]
         ELSE post' = [post EXCEPT !.pc = "more", !.evt = r.evt]
    /\ UNCHANGED <<health, log, accepted, vEvt, vResults>>

\* if dec.More() { httpError(...); return }
PostMore ==
    /\ post.pc = "more"
    /\ IF More(post.body)
       THEN post' = [post EXCEPT
                !.pc = "done", !.stage = "more",
                !.resp = Append(@, httpError(StatusBadRequest,
                                             "unexpected extra JSON content",
                                             "multiple JSON values"))]
       ELSE post' = [post EXCEPT !.pc = "finish"]
    /\ UNCHANGED <<health, log, accepted, vEvt, vResults>>

PostFinishLogFirst ==
    /\ post.pc = "finish"
    /\ Len(log) < MaxLog
    /\ \E t \in 1..MaxClock :
         LET evt == IF IsZero(post.evt.Timestamp)
                    THEN [post.evt EXCEPT !.Timestamp = UTC(Now(t))]
                    ELSE post.evt
             err == Validate(evt)
         IN
         /\ log' = Append(log, LogLine(evt))
         /\ IF err # nil
            THEN /\ post' = [post EXCEPT
                        !.pc = "done", !.evt = evt, !.stage = "validate",
                        !.logged = @ + 1,
                        !.resp = Append(@, httpError(StatusBadRequest,
                                                     "validation failed", err))]
                 /\ UNCHANGED accepted
            ELSE /\ accepted' = accepted + 1
                 /\ post' = [post EXCEPT
                        !.pc = "done", !.evt = evt, !.stage = "accepted",
                        !.logged = @ + 1,
                        !.resp = Append(@, AcceptedResponse(evt))]
    /\ UNCHANGED <<health, vEvt, vResults>>

\* timestamp defaulting, Validate, the log line and the 202 response
PostFinish ==
    /\ post.pc = "finish"
    /\ \E t \in 1..MaxClock :
         LET evt == IF IsZero(post.evt.Timestamp)
                    THEN [post.evt EXCEPT !.Timestamp = UTC(Now(t))]
                    ELSE post.evt
             err == Validate(evt)
         IN
         IF err # nil
         THEN /\ post' = [post EXCEPT
                     !.pc = "done", !.evt = evt, !.stage = "validate",
                     !.resp = Append(@, httpError(StatusBadRequest,
                                                  "validation failed", err))]
              /\ UNCHANGED <<log, accepted>>
         ELSE /\ Len(log) < MaxLog
              /\ log' = Append(log, LogLine(evt))
              /\ accepted' = accepted + 1
              /\ post' = [post EXCEPT
                     !.pc = "done", !.evt = evt, !.stage = "accepted",
                     !.logged = @ + 1,
                     !.resp = Append(@, AcceptedResponse(evt))]
    /\ UNCHANGED <<health, vEvt, vResults>>

\* the handler returns and the server completes the exchange
PostReturn ==
    /\ post.pc = "done"
    /\ post' = IdlePost
    /\ UNCHANGED <<health, log, accepted, vEvt, vResults>>

(***************************************************************************)
(* GET /health: EventHandler.handleHealth                                  *)
(***************************************************************************)
HealthRequest ==
    /\ health.pc \in {"idle", "done"}
    /\ health' = [pc |-> "header", status |-> 0, body |-> ""]
    /\ UNCHANGED <<post, log, accepted, vEvt, vResults>>

HealthWriteHeaderAccepted ==
    /\ health.pc = "header"
    /\ health' = [health EXCEPT !.pc = "body", !.status = StatusAccepted]
    /\ UNCHANGED <<post, log, accepted, vEvt, vResults>>

\* w.WriteHeader(http.StatusOK)
HealthWriteHeader ==
    /\ health.pc = "header"
    /\ health' = [health EXCEPT !.pc = "body", !.status = StatusOK]
    /\ UNCHANGED <<post, log, accepted, vEvt, vResults>>

\* w.Write([]byte("ok"))
HealthWrite ==
    /\ health.pc = "body"
    /\ health' = [health EXCEPT !.pc = "done", !.body = "ok"]
    /\ UNCHANGED <<post, log, accepted, vEvt, vResults>>

Init ==
    /\ post = IdlePost
    /\ health = IdleHealth
    /\ log = <<>>
    /\ accepted = 0
    /\ vEvt = ZeroEvent
    /\ vResults = <<>>

Next ==
    \/ PostRequest
    \/ PostDecode
    \/ PostMore
    \/ PostFinish
    \/ PostReturn
    \/ HealthRequest
    \/ HealthWriteHeader
    \/ HealthWrite

Spec == Init /\ [][Next]_vars

(***************************************************************************)
(* Event.Validate on its own: any event, validated repeatedly              *)
(***************************************************************************)
Strs == {<<>>, <<" ">>, <<"\t", "\n">>, <<"a">>, <<" ", "a", "\r">>}

Events ==
    { [ID |-> i, Type |-> ty, Source |-> so, Timestamp |-> ts, Payload |-> p] :
        i \in Strs, ty \in Strs, so \in Strs,
        ts \in {ZeroTime, [t |-> 1, loc |-> "Fixed"]}, p \in {"nil", "set"} }

CallValidate ==
    /\ Len(vResults) < MaxCalls
    /\ vResults' = Append(vResults, Validate(vEvt))
    /\ UNCHANGED <<post, health, log, accepted, vEvt>>

InitValidate ==
    /\ post = IdlePost
    /\ health = IdleHealth
    /\ log = <<>>
    /\ accepted = 0
    /\ vEvt \in Events
    /\ vResults = <<>>

NextValidate == CallValidate

SpecValidate == InitValidate /\ [][NextValidate]_vars

(***************************************************************************)
(* Vocabulary of the properties                                            *)
(***************************************************************************)
KnownKeys == {"id", "type", "source", "timestamp", "payload"}

Keys(b) == { b.members[i].key : i \in 1..Len(b.members) }

Get(b, key) ==
    b.members[CHOOSE i \in 1..Len(b.members) : b.members[i].key = key].val

NonBlank(s) == \E i \in 1..Len(s) : ~IsSpace(s[i])

\* the key is present and holds a string that is not blank
Filled(b, key) ==
    /\ key \in Keys(b)
    /\ Get(b, key).t = "string"
    /\ NonBlank(Get(b, key).s)

\* a single JSON object, nothing after it, at most 1 MiB, no unknown key
SingleObject(b) ==
    /\ b.kind = "object"
    /\ b.tail = "none"
    /\ Total(b) <= MaxBytes
    /\ Keys(b) \subseteq KnownKeys

ValidFields(b) == Filled(b, "id") /\ Filled(b, "type") /\ Filled(b, "source")

ValidEventBody(b) == SingleObject(b) /\ ValidFields(b)

\* the timestamp the body carries (the zero time when it carries none)
SuppliedTimestamp(b) ==
    IF "timestamp" \in Keys(b) THEN ParseRFC3339(Get(b, "timestamp").s)
    ELSE ZeroTime

Done == post.pc = "done"

Answered == Done /\ Len(post.resp) = 1

Resp == post.resp[1]

IsErrorBody(body) == DOMAIN body = {"error", "details"}

RequiredMsg(field) ==
    IF field = "id" THEN "ID is required."
    ELSE IF field = "type" THEN "Type is required."
    ELSE "Source is required."

\* the read of the first JSON value runs past the limit
FirstValueBeyondLimit(b) ==
    \/ b.kind = "empty" /\ Total(b) > MaxBytes
    \/ b.kind # "empty" /\ b.vlen > MaxBytes
    \/ b.kind \in {"null", "scalar"} /\ b.vlen = MaxBytes /\ Total(b) > MaxBytes

\* the first of id, type, source that is blank in event e ("" when none is)
FirstBlank(e) ==
    IF ~NonBlank(e.ID) THEN "id"
    ELSE IF ~NonBlank(e.Type) THEN "type"
    ELSE IF ~NonBlank(e.Source) THEN "source"
    ELSE ""

\* the first of id, type, source that body b leaves missing or blank
FirstUnfilled(b) ==
    IF ~Filled(b, "id") THEN "id"
    ELSE IF ~Filled(b, "type") THEN "type"
    ELSE "source"

(***************************************************************************)
(* C1: a POST /events body that is a single JSON object with non-blank id, *)
(* type and source (timestamp and payload optional, no other keys, at most *)
(* 1 MiB) is answered 202 with {"status":"accepted","id":<the id sent>},   *)
(* and the keys id, type and source populate the Event fields of the same  *)
(* name.                                                                   *)
(***************************************************************************)
C1_ValidEventAccepted ==
    (Done /\ ValidEventBody(post.body)) =>
        /\ Len(post.resp) = 1
        /\ Resp.status = StatusAccepted
        /\ Resp.body = [status |-> "accepted", id |-> Get(post.body, "id").s]
        /\ post.evt.ID = Get(post.body, "id").s
        /\ post.evt.Type = Get(post.body, "type").s
        /\ post.evt.Source = Get(post.body, "source").s

(***************************************************************************)
(* C2: Validate returns no error exactly when id, type and source are all  *)
(* non-blank, whatever timestamp and payload are; otherwise it returns the *)
(* one missing-field error of the first blank field in the order id, type, *)
(* source; and every validation of the same event gives the same result.   *)
(***************************************************************************)
C2_Validate ==
    \A i \in 1..Len(vResults) :
        /\ (vResults[i] = nil) <=> (FirstBlank(vEvt) = "")
        /\ vResults[i] # nil => vResults[i] = RequiredMsg(FirstBlank(vEvt))
        /\ vResults[i] = vResults[1]

C2_Witness ==
    /\ Len(vResults) = MaxCalls
    /\ NonBlank(vEvt.ID)
    /\ vEvt.Type = <<"\t", "\n">>
    /\ vEvt.Source = <<>>
    /\ ~IsZero(vEvt.Timestamp)
    /\ vResults[1] = "Type is required."

C4_Original ==
    (Answered /\ FirstValueBeyondLimit(post.body)) =>
        /\ Resp.status = 413
        /\ Resp.status # StatusBadRequest

(***************************************************************************)
(* C4 (amended): a body is rejected for its size exactly when the read of  *)
(* its first JSON value runs past 1 MiB; the response then has status 400, *)
(* the error "invalid JSON payload" and the details "http: request body    *)
(* too large", so only the details tell it from a malformed body.          *)
(***************************************************************************)
C4_TooLargeIs400 ==
    Done =>
        /\ Len(post.resp) = 1
        /\ (Resp.status # StatusAccepted /\ Resp.body.details = ErrTooLarge)
              <=> FirstValueBeyondLimit(post.body)
        /\ FirstValueBeyondLimit(post.body) =>
              /\ Resp.status = StatusBadRequest
              /\ Resp.body.error = "invalid JSON payload"
              /\ post.stage = "decode"

C4_Witness ==
    /\ Answered
    /\ post.body.kind = "object"
    /\ post.body.vlen > MaxBytes
    /\ Resp.status = StatusBadRequest
    /\ Resp.body.details = ErrTooLarge

C6_UnknownFieldRejected ==
    (Done /\ post.body.kind = "object" /\ ~(Keys(post.body) \subseteq KnownKeys)) =>
        /\ Len(post.resp) = 1
        /\ Resp.status = StatusBadRequest
        /\ Resp.body.error = "invalid JSON payload"
        /\ post.stage = "decode"
        /\ IsZero(SuppliedTimestamp(post.body)) => IsZero(post.evt.Timestamp)

C6_Witness ==
    /\ Answered
    /\ post.body.kind = "object"
    /\ "bogus" \in Keys(post.body)
    /\ ValidFields(post.body)
    /\ post.body.tail = "none"
    /\ Total(post.body) <= MaxBytes
    /\ post.stage = "decode"
    /\ Resp.status = StatusBadRequest

(***************************************************************************)
(* C7: every POST /events request ends in exactly one response, either 202 *)
(* or a 4xx with a JSON body holding error and details; when a body that   *)
(* is otherwise a well-formed event leaves id, type or source blank, the   *)
(* status is 400 and details names the violated field.                     *)
(***************************************************************************)
C7_ErrorContract ==
    Done =>
        /\ Len(post.resp) = 1
        /\ \/ Resp.status = StatusAccepted
           \/ Resp.status \in 400..499 /\ IsErrorBody(Resp.body)
        /\ (SingleObject(post.body) /\ ~ValidFields(post.body)) =>
              /\ Resp.status = StatusBadRequest
              /\ Resp.body.details = RequiredMsg(FirstUnfilled(post.body))

C10_HealthOk ==
    health.pc = "done" => (health.status = StatusOK /\ health.body = "ok")

\* the probe is answered while a POST /events request is being handled
C10_Witness ==
    /\ health.pc = "done"
    /\ health.status = StatusOK
    /\ health.body = "ok"
    /\ post.pc = "finish"

====
